---------------------------- MODULE Spec2Model ----------------------------
(***************************************************************************)
(* c_trampoline (src/c_trampoline.hpp) and its hardware aliases            *)
(* (src/pico_trampoline.hpp), for ARMv6-M Thumb.                           *)
(*                                                                         *)
(* Memory is a map from byte addresses to bytes.  A 32-bit word is the     *)
(* tuple of its four bytes, least significant first, so that every value   *)
(* of the full 32-bit range is represented exactly.  The code block is     *)
(* executed by decoding the bytes the source lists, one instruction per    *)
(* step.                                                                   *)
(***************************************************************************)
EXTENDS Integers, Sequences, FiniteSets, TLC

VARIABLES
    inst,       \* the instantiation the compiler was asked for last, or NoInst
    arity,      \* sizeof...(Args) of this instantiation
    base,       \* address of the trampoline, i.e. of asm_code.code[0]
    mem,        \* the trampoline's storage: byte address -> byte
    writer,     \* the owner's set_method call in progress, or NoWrite
    op,         \* the accessor the owner called last
    ret,        \* what that accessor returned
    registered, \* the callback pointer handed to the C API (0: none yet)
    phase,      \* the invoker: "idle", "running", "branched", "returned", "fault"
    pc,         \* address of the next instruction while running
    regs,       \* r0..r14 (r13 = sp, r14 = lr), each a word
    src,        \* per register: the address its value was loaded from (0: none)
    target,     \* the operand of the bx executed last: [value, from]
    entry,      \* regs as the invoker set them when it called the pointer
    in_args,    \* the arguments the invoker passed
    clean,      \* no set_method has overlapped the current invocation
    call,       \* what the callee received and returned
    ctor,       \* the constructor's arguments: [obj, method]
    last_set    \* the method bound last: by the constructor or a returned set_method

vars == <<inst, arity, base, mem, writer, op, ret, registered, phase, pc,
          regs, src, target, entry, in_args, clean, call, ctor, last_set>>

---------------------------------------------------------------------------
(* Bounds of the model.                                                    *)

\* number of distinct member functions of T the owner can bind
NumMethods == 2
\* number of distinct argument lists the invoker passes, and of distinct
\* results a method returns
NumArgVals == 2
\* bytes of other members that precede the trampoline in the containing object
MaxLead == 2

---------------------------------------------------------------------------
(* Words.                                                                  *)

\* the word of a number below 2^31
WordOf(n) == <<n % 256, (n \div 256) % 256, (n \div 65536) % 256, (n \div 16777216) % 256>>

ZeroWord == <<0, 0, 0, 0>>

\* the word read from byte memory m at address a (little endian)
LoadWord(m, a) == <<m[a], m[a + 1], m[a + 2], m[a + 3]>>

\* a rounded down / up to a multiple of n
AlignDown(a, n) == a - (a % n)
AlignUp(a, n) == AlignDown(a + n - 1, n)

---------------------------------------------------------------------------
(* The code blocks.                                                        *)

\* the largest supported number of forwarded arguments
MaxArgs == 3

\* AsmCode<0>::code
AsmCode0 ==
    << \h01, \h48,    \* ldr r0, [pc, #4]     ; self
       \h01, \h4B,    \* ldr r3, [pc, #8]     ; method
       \h18, \h47,    \* bx  r3
       \h00, \hBF >>  \* nop

\* AsmCode<1>::code
AsmCode1 ==
    << \h01, \h46,    \* mov r1, r0
       \h01, \h48,    \* ldr r0, [pc, #4]     ; self
       \h01, \h4B,    \* ldr r3, [pc, #4]     ; method
       \h18, \h47 >>  \* bx  r3

\* AsmCode<2>::code
AsmCode2 ==
    << \h0A, \h46,    \* mov r2, r1
       \h01, \h46,    \* mov r1, r0
       \h01, \h48,    \* ldr r0, [pc, #4]     ; self
       \h02, \h4B,    \* ldr r3, [pc, #8]     ; method
       \h18, \h47,    \* bx  r3
       \h00, \hBF >>  \* nop

\* AsmCode<3>::code
AsmCode3 ==
    << \h13, \h46,    \* mov r3, r2
       \h0A, \h46,    \* mov r2, r1
       \h01, \h46,    \* mov r1, r0
       \h01, \h48,    \* ldr r0, [pc, #12]    ; method
       \h84, \h46,    \* mov r12, r0
       \h01, \h48,    \* ldr r0, [pc, #4]     ; self
       \h60, \h47,    \* bx r12
       \h00, \hBF >>  \* nop

\* the arity-2 block with its two moves in the other order
AsmCodeMovesReordered(Count) ==
    CASE Count = 0 -> AsmCode0
      [] Count = 1 -> AsmCode1
      [] Count = 2 -> << \h01, \h46, \h0A, \h46, \h01, \h48, \h02, \h4B,
                         \h18, \h47, \h00, \hBF >>
      [] Count = 3 -> AsmCode3

\* the arity-1 block ending in blx r3 instead of bx r3
AsmCodeLinkingBranch(Count) ==
    CASE Count = 0 -> AsmCode0
      [] Count = 1 -> << \h01, \h46, \h01, \h48, \h01, \h4B, \h98, \h47 >>
      [] Count = 2 -> AsmCode2
      [] Count = 3 -> AsmCode3

\* AsmCode<sizeof...(Args)> asm_code: the block selected by the argument count
AsmCode(Count) ==
    CASE Count = 0 -> AsmCode0
      [] Count = 1 -> AsmCode1
      [] Count = 2 -> AsmCode2
      [] Count = 3 -> AsmCode3

---------------------------------------------------------------------------
(* Layout of the struct, as the compiler places its members in declaration *)
(* order on a 32-bit ARM target.                                           *)

\* __attribute__((aligned(4))) of AsmCode<Count>::code
AlignofAsmCode == 4
\* alignment of a member the struct's __packed__ attribute applies to
PackedAlign == 1
\* sizeof(T*)
SizeofPointer == 4
\* sizeof(R (T::*)(Args...)): the function address, then the this-adjustment
SizeofMemberPointer == 8

\* sizeof(AsmCode<Count>): the array, rounded up to the struct's alignment
SizeofAsmCode(Count) == AlignUp(Len(AsmCode(Count)), AlignofAsmCode)

\* alignof(c_trampoline) if __packed__ applied to asm_code as well
AlignofFullyPacked == PackedAlign

\* alignof(c_trampoline): asm_code is a non-POD member and keeps its alignment
\* under __packed__; self and method are packed
AlignofTrampoline == AlignofAsmCode

\* offsetof(c_trampoline, self)
OffsetOfSelf(Count) == AlignUp(SizeofAsmCode(Count), PackedAlign)

\* offsetof(c_trampoline, method)
OffsetOfMethod(Count) == AlignUp(OffsetOfSelf(Count) + SizeofPointer, PackedAlign)

\* sizeof(c_trampoline)
SizeofTrampoline(Count) ==
    AlignUp(OffsetOfMethod(Count) + SizeofMemberPointer, AlignofTrampoline)

\* offset of a trampoline member declared after `lead` bytes of other members
\* (MAKE_TRAMPOLINE declares the trampoline as a member of CLASS)
TrampolineOffset(lead) == AlignUp(lead, AlignofTrampoline)

\* the bytes of a member function pointer to the non-virtual method at address m
MethodRep(m) == WordOf(m) \o WordOf(0)

\* the storage the constructor leaves: the code block's initializer, then
\* self { &self }, then method { method }
Construct(obj, b, Count, m) ==
    [a \in b..(b + SizeofTrampoline(Count) - 1) |->
        LET off == a - b IN
        IF off < Len(AsmCode(Count)) THEN AsmCode(Count)[off + 1]
        ELSE IF off >= OffsetOfSelf(Count) /\ off < OffsetOfSelf(Count) + SizeofPointer
             THEN WordOf(obj)[off - OffsetOfSelf(Count) + 1]
        ELSE IF off >= OffsetOfMethod(Count)
                /\ off < OffsetOfMethod(Count) + SizeofMemberPointer
             THEN MethodRep(m)[off - OffsetOfMethod(Count) + 1]
        ELSE 0]

\* the addresses of the fields of the trampoline at b
SelfField(b, Count) == (b + OffsetOfSelf(Count))..(b + OffsetOfSelf(Count) + SizeofPointer - 1)
MethodField(b, Count) ==
    (b + OffsetOfMethod(Count))..(b + OffsetOfMethod(Count) + SizeofMemberPointer - 1)
CodeField(b, Count) == b..(b + Len(AsmCode(Count)) - 1)

---------------------------------------------------------------------------
(* The accessors.                                                          *)

\* operator function_pointer(): (uint8_t*)asm_code + 1
operator_function_pointer(b) == b + 1

\* get_callback() without the Thumb bit
get_callback_plain_address(b) == b

\* get_callback(): (uint8_t*)asm_code + 1
get_callback(b) == b + 1

\* get_method() reading the word before the method field
get_method_reads_self(m, b, Count) == LoadWord(m, b + OffsetOfSelf(Count))

\* get_method(): the function address held in the method field of storage m
get_method(m, b, Count) == LoadWord(m, b + OffsetOfMethod(Count))

\* set_method(new_method) storing one word too early, over self
set_method_over_self(m, b, Count, new_method) ==
    [a \in DOMAIN m |->
        IF a >= b + OffsetOfSelf(Count) /\ a < b + OffsetOfSelf(Count) + SizeofMemberPointer
        THEN MethodRep(new_method)[a - (b + OffsetOfSelf(Count)) + 1]
        ELSE m[a]]

\* set_method(new_method): storage m with the method field holding new_method
set_method(m, b, Count, new_method) ==
    [a \in DOMAIN m |->
        IF a \in MethodField(b, Count)
        THEN MethodRep(new_method)[a - (b + OffsetOfMethod(Count)) + 1]
        ELSE m[a]]

---------------------------------------------------------------------------
(* ARMv6-M Thumb: the instructions the code blocks are made of.            *)

SP == 13
LR == 14
PC == 15
Regs == 0..14

\* the instruction encoded by the halfword with low byte lo and high byte hi
Decode(lo, hi) ==
    IF hi \div 8 = 9                           \* 01001 Rt imm8
    THEN [op |-> "ldr", rd |-> hi % 8, rm |-> PC, imm |-> 4 * lo]
    ELSE IF hi = \h46                          \* 01000110 D Rm Rd
    THEN [op |-> "mov", rd |-> (lo % 8) + 8 * (lo \div 128), rm |-> (lo \div 8) % 16, imm |-> 0]
    ELSE IF hi = \h47 /\ lo % 8 = 0            \* 01000111 L Rm 000
    THEN [op |-> IF lo \div 128 = 0 THEN "bx" ELSE "blx",
          rd |-> PC, rm |-> (lo \div 8) % 16, imm |-> 0]
    ELSE IF hi = \hBF /\ lo = 0                \* 10111111 00000000
    THEN [op |-> "nop", rd |-> 0, rm |-> 0, imm |-> 0]
    ELSE [op |-> "undefined", rd |-> 0, rm |-> 0, imm |-> 0]

\* the address a PC-relative load at address a with offset imm reads:
\* Align(PC, 4) + imm, where PC reads as the instruction's address plus 4
LiteralAddress(a, imm) == AlignDown(a + 4, 4) + imm

---------------------------------------------------------------------------
(* The constraints on the template arguments.                              *)

\* types a signature can name, with their sizes on the 32-bit ARM target
ScalarTypes == {"bool", "char", "uint32_t", "int32_t", "pointer", "int64_t", "double"}
ClassTypes == {"struct16"}
ArrayTypes == {"int[4]"}

\* sizeof(T) for a type that has a size
Sizeof(T) ==
    CASE T = "bool" -> 1
      [] T = "char" -> 1
      [] T = "uint32_t" -> 4
      [] T = "int32_t" -> 4
      [] T = "pointer" -> 4
      [] T = "int64_t" -> 8
      [] T = "double" -> 8
      [] T = "struct16" -> 16
      [] T = "int[4]" -> 16

\* FitsInRegister accepting a register pair
FitsInRegisterPair(T) == Sizeof(T) <= 8

\* concept FitsInRegister = sizeof(T) <= 4
FitsInRegister(T) == Sizeof(T) <= 4

\* concept VoidReturn = requires (T (*x)()) { x(); }: satisfied when a function
\* can return T and the call x() is well formed, which it is for void and for
\* every object type; no function returns an array
VoidReturn(T) == T \notin ArrayTypes

\* concept NotTooManyArgs = sizeof...(Args) <= Count
NotTooManyArgs(Count, Args) == Len(Args) <= Count

\* the atomic constraint sizeof(R) <= 8; void has no size, and the constraint
\* is then not satisfied
ReturnSizeFits(R) == R # "void" /\ Sizeof(R) <= 8

\* FitsInRegister... Args and NotTooManyArgs<3, Args...>
ArgumentConstraints(Args) ==
    /\ \A i \in 1..Len(Args) : FitsInRegister(Args[i])
    /\ NotTooManyArgs(MaxArgs, Args)

\* ((sizeof(R) <= 8) || VoidReturn<R>)
ReturnConstraint(R) == ReturnSizeFits(R) \/ VoidReturn(R)

\* the hardware aliases: return type and forwarded argument types
irq_trampoline == [R |-> "void", Args |-> <<>>]
exception_trampoline == [R |-> "void", Args |-> <<>>]
resus_trampoline == [R |-> "void", Args |-> <<>>]
rtc_trampoline == [R |-> "void", Args |-> <<>>]
gpio_irq_trampoline == [R |-> "void", Args |-> <<"uint32_t", "uint32_t">>]
hardware_alarm_trampoline == [R |-> "void", Args |-> <<"uint32_t">>]
repeating_timer_trampoline == [R |-> "bool", Args |-> <<"pointer">>]
alarm_trampoline == [R |-> "int64_t", Args |-> <<"int32_t", "pointer">>]

Aliases ==
    {irq_trampoline, exception_trampoline, resus_trampoline, rtc_trampoline,
     gpio_irq_trampoline, hardware_alarm_trampoline, repeating_timer_trampoline,
     alarm_trampoline}

NoInst == [R |-> "none", Args |-> <<>>, args_ok |-> FALSE, accepted |-> FALSE]

---------------------------------------------------------------------------
(* The environment: where objects and methods live, what the invoker       *)
(* passes.                                                                 *)

\* addresses of objects of class T, in SRAM; T's alignment is at least the
\* alignment of its trampoline member
ObjAddrs == {\h20000100, \h20000230}

\* entry points of T's methods, in flash; bit 0 set: Thumb code
MethodAddr(i) == \h10000101 + \h144 * (i - 1)
Methods == {MethodAddr(i) : i \in 1..NumMethods}

\* the k-th word of the v-th argument list: small values (5, 4, 3), values
\* at the top of the 32-bit range, then other patterns; the words of one
\* list differ from each other
ArgWord(v, k) ==
    IF v = 1 THEN WordOf(6 - k)
    ELSE IF v = 2 THEN <<255 - k, 255, 255, 255>>
    ELSE <<v, k, 16 * v + k, 128 + v>>

\* the argument lists of length n
ArgTuples(n) == {[k \in 1..n |-> ArgWord(v, k)] : v \in 1..NumArgVals}

\* the registers as the invoker leaves them when it calls the pointer:
\* arguments in r0.., its own values elsewhere, the return address in lr
EntryRegs(args) ==
    [r \in Regs |->
        IF r < Len(args) THEN args[r + 1]
        ELSE IF r = SP THEN WordOf(\h20041F00)
        ELSE IF r = LR THEN WordOf(\h10000801)
        ELSE WordOf(\h44440000 + r)]

IdleRegs == [r \in Regs |-> ZeroWord]
NoSrc == [r \in Regs |-> 0]
NoWrite == 0
NoTarget == [value |-> ZeroWord, from |-> 0]
NoCall == [fn |-> ZeroWord, this |-> ZeroWord, args |-> <<>>,
           result |-> <<ZeroWord, ZeroWord>>, return_to |-> ZeroWord]

---------------------------------------------------------------------------
(* Construction.                                                           *)

Init ==
    \E n \in 0..MaxArgs, obj \in ObjAddrs, lead \in 0..MaxLead, m \in Methods :
        /\ inst = NoInst
        /\ arity = n
        /\ base = obj + TrampolineOffset(lead)
        /\ mem = Construct(obj, obj + TrampolineOffset(lead), n, m)
        /\ ctor = [obj |-> obj, method |-> m]
        /\ last_set = m
        /\ writer = NoWrite
        /\ op = "constructor"
        /\ ret = ZeroWord
        /\ registered = 0
        /\ phase = "idle"
        /\ pc = 0
        /\ regs = IdleRegs
        /\ src = NoSrc
        /\ target = NoTarget
        /\ entry = IdleRegs
        /\ in_args = <<>>
        /\ clean = TRUE
        /\ call = NoCall

invoker_vars == <<phase, pc, regs, src, target, entry, in_args, call>>

---------------------------------------------------------------------------
(* The owner's calls.                                                      *)

\* operator function_pointer() const; the pointer goes to the C API
ConvertToFunctionPointer ==
    /\ writer = NoWrite
    /\ op' = "operator function_pointer"
    /\ ret' = WordOf(operator_function_pointer(base))
    /\ registered' = operator_function_pointer(base)
    /\ UNCHANGED <<inst, arity, base, mem, writer, clean, ctor, last_set, invoker_vars>>

\* get_callback() const; the pointer goes to the C API
GetCallback ==
    /\ writer = NoWrite
    /\ op' = "get_callback"
    /\ ret' = WordOf(get_callback(base))
    /\ registered' = get_callback(base)
    /\ UNCHANGED <<inst, arity, base, mem, writer, clean, ctor, last_set, invoker_vars>>

\* get_method() const
GetMethod ==
    /\ writer = NoWrite
    /\ op' = "get_method"
    /\ ret' = get_method(mem, base, arity)
    /\ UNCHANGED <<inst, arity, base, mem, writer, registered, clean, ctor, last_set,
                   invoker_vars>>

\* set_method(new_method) is entered.  The store to method is not atomic with
\* respect to an invocation: until the call returns a load of the field may
\* see old bytes, new bytes or a mixture.
SetMethodBegin(new_method) ==
    /\ writer = NoWrite
    /\ writer' = new_method
    /\ clean' = (clean /\ phase = "idle")
    /\ UNCHANGED <<inst, arity, base, mem, op, ret, registered, ctor, last_set, invoker_vars>>

\* method = new_method is complete and set_method returns
SetMethodEnd ==
    /\ writer # NoWrite
    /\ mem' = set_method(mem, base, arity, writer)
    /\ last_set' = writer
    /\ writer' = NoWrite
    /\ op' = "set_method"
    /\ ret' = ZeroWord
    /\ UNCHANGED <<inst, arity, base, registered, clean, ctor, invoker_vars>>

---------------------------------------------------------------------------
(* The invoker: interrupt hardware or a C API calling the registered       *)
(* pointer, possibly on the other core while the owner runs.               *)

\* the values a load of the byte at address a can produce
ReadByte(a) ==
    IF writer # NoWrite /\ a \in MethodField(base, arity)
    THEN {mem[a], MethodRep(writer)[a - (base + OffsetOfMethod(arity)) + 1]}
    ELSE {mem[a]}

\* the values a load of the word at address a can produce
ReadWord(a) ==
    {<<b0, b1, b2, b3>> : b0 \in ReadByte(a), b1 \in ReadByte(a + 1),
                         b2 \in ReadByte(a + 2), b3 \in ReadByte(a + 3)}

\* the invoker calls the registered pointer with args: bit 0 of the pointer
\* selects Thumb state and is not part of the fetch address; without it the
\* processor faults
Invoke(args) ==
    /\ phase = "idle"
    /\ registered # 0
    /\ regs' = EntryRegs(args)
    /\ entry' = EntryRegs(args)
    /\ in_args' = args
    /\ src' = NoSrc
    /\ target' = NoTarget
    /\ call' = NoCall
    /\ clean' = (writer = NoWrite)
    /\ IF registered % 2 = 1
       THEN phase' = "running" /\ pc' = registered - 1
       ELSE phase' = "fault" /\ pc' = registered
    /\ UNCHANGED <<inst, arity, base, mem, writer, op, ret, registered, ctor, last_set>>

\* the processor stops in a fault
Fault ==
    /\ phase' = "fault"
    /\ UNCHANGED <<pc, regs, src, target>>

\* one instruction of the code block
Step ==
    /\ phase = "running"
    /\ IF pc \notin DOMAIN mem \/ pc + 1 \notin DOMAIN mem
       THEN Fault
       ELSE LET ins == Decode(mem[pc], mem[pc + 1]) IN
            CASE ins.op = "ldr" ->
                   LET a == LiteralAddress(pc, ins.imm) IN
                   IF a \in DOMAIN mem /\ a + 3 \in DOMAIN mem
                   THEN \E w \in ReadWord(a) :
                            /\ regs' = [regs EXCEPT ![ins.rd] = w]
                            /\ src' = [src EXCEPT ![ins.rd] = a]
                            /\ pc' = pc + 2
                            /\ UNCHANGED <<phase, target>>
                   ELSE Fault
              [] ins.op = "mov" /\ ins.rd # PC /\ ins.rm # PC ->
                   /\ regs' = [regs EXCEPT ![ins.rd] = regs[ins.rm]]
                   /\ src' = [src EXCEPT ![ins.rd] = src[ins.rm]]
                   /\ pc' = pc + 2
                   /\ UNCHANGED <<phase, target>>
              [] ins.op = "nop" ->
                   /\ pc' = pc + 2
                   /\ UNCHANGED <<phase, regs, src, target>>
              [] ins.op = "bx" /\ ins.rm # PC ->
                   /\ target' = [value |-> regs[ins.rm], from |-> src[ins.rm]]
                   /\ phase' = "branched"
                   /\ UNCHANGED <<pc, regs, src>>
              [] ins.op = "blx" /\ ins.rm # PC ->
                   /\ target' = [value |-> regs[ins.rm], from |-> src[ins.rm]]
                   /\ phase' = "branched"
                   /\ regs' = [regs EXCEPT ![LR] = WordOf(pc + 2 + 1)]
                   /\ src' = [src EXCEPT ![LR] = 0]
                   /\ UNCHANGED pc
              [] OTHER -> Fault
    /\ UNCHANGED <<inst, arity, base, mem, writer, op, ret, registered, entry, in_args,
                   clean, call, ctor, last_set>>

\* control arrives at the branch target.  If that is the Thumb entry point of
\* a method of T, the method runs with this = r0 and its arguments in r1..,
\* leaves its result in r0/r1 and returns with bx lr; anything else faults.
RunMethod ==
    /\ phase = "branched"
    /\ IF target.value \in {WordOf(m) : m \in Methods}
       THEN \E i \in 1..NumArgVals :
              LET result == <<ArgWord(i, 1), ArgWord(i, 2)>> IN
              /\ call' = [fn |-> target.value, this |-> regs[0],
                          args |-> [k \in 1..arity |-> regs[k]],
                          result |-> result, return_to |-> regs[LR]]
              /\ regs' = [regs EXCEPT ![0] = result[1], ![1] = result[2]]
              /\ phase' = "returned"
       ELSE /\ phase' = "fault"
            /\ UNCHANGED <<regs, call>>
    /\ UNCHANGED <<inst, arity, base, mem, writer, op, ret, registered, pc, src, target,
                   entry, in_args, clean, ctor, last_set>>

\* the invoker has its result and goes on; it may call again
Resume ==
    /\ phase = "returned"
    /\ phase' = "idle"
    /\ pc' = 0
    /\ regs' = IdleRegs
    /\ src' = NoSrc
    /\ target' = NoTarget
    /\ entry' = IdleRegs
    /\ in_args' = <<>>
    /\ call' = NoCall
    /\ clean' = TRUE
    /\ UNCHANGED <<inst, arity, base, mem, writer, op, ret, registered, ctor, last_set>>

Next ==
    \/ ConvertToFunctionPointer
    \/ GetCallback
    \/ GetMethod
    \/ \E m \in Methods : SetMethodBegin(m)
    \/ SetMethodEnd
    \/ \E args \in ArgTuples(arity) : Invoke(args)
    \/ Step
    \/ RunMethod
    \/ Resume

Spec == Init /\ [][Next]_vars

---------------------------------------------------------------------------
(* Instantiation: the compiler checks the constraints of a requested       *)
(* c_trampoline<T, R, Args...>.  No object exists at that time.            *)

\* longest argument list requested
MaxArgListLen == 4

ReturnTypes == {"void"} \cup ScalarTypes \cup ClassTypes \cup ArrayTypes
ArgTypes == {"char", "uint32_t", "int32_t", "pointer", "int64_t", "struct16"}

\* all argument lists of length n
RECURSIVE ArgListsOfLen(_)
ArgListsOfLen(n) ==
    IF n = 0 THEN {<<>>}
    ELSE {Append(l, T) : l \in ArgListsOfLen(n - 1), T \in ArgTypes}

ArgLists == UNION {ArgListsOfLen(n) : n \in 0..MaxArgListLen}

runtime_vars == <<arity, base, mem, writer, op, ret, registered, clean, ctor,
                  last_set, invoker_vars>>

InitBuild ==
    /\ inst = NoInst
    /\ arity = 0
    /\ base = 0
    /\ mem = <<>>
    /\ ctor = [obj |-> 0, method |-> 0]
    /\ last_set = 0
    /\ writer = NoWrite
    /\ op = "none"
    /\ ret = ZeroWord
    /\ registered = 0
    /\ phase = "idle"
    /\ pc = 0
    /\ regs = IdleRegs
    /\ src = NoSrc
    /\ target = NoTarget
    /\ entry = IdleRegs
    /\ in_args = <<>>
    /\ clean = TRUE
    /\ call = NoCall

\* template<typename T, typename R, FitsInRegister... Args>
\* requires ((sizeof(R) <= 8) || VoidReturn<R>) && NotTooManyArgs<3, Args...>
\* (each behaviour follows one instantiation request)
Instantiate(R, Args) ==
    /\ inst = NoInst
    /\ inst' = [R |-> R, Args |-> Args,
                args_ok |-> ArgumentConstraints(Args),
                accepted |-> ArgumentConstraints(Args) /\ ReturnConstraint(R)]
    /\ UNCHANGED runtime_vars

\* one of the aliases of pico_trampoline.hpp is named
InstantiateAlias(a) == Instantiate(a.R, a.Args)

\* user code names c_trampoline<T, R, Args...> itself
InstantiateGeneric ==
    /\ inst = NoInst
    /\ \E R \in ReturnTypes, Args \in ArgLists : Instantiate(R, Args)

\* user code names an alias, as MAKE_TRAMPOLINE does
InstantiateNamedAlias ==
    /\ inst = NoInst
    /\ \E a \in Aliases : InstantiateAlias(a)

NextBuild ==
    \/ InstantiateGeneric
    \/ InstantiateNamedAlias

SpecBuild == InitBuild /\ [][NextBuild]_vars

---------------------------------------------------------------------------
(* Properties.                                                             *)

\* the code-block lengths the specification states, by arity
StatedLength(n) == CASE n = 0 -> 8 [] n = 1 -> 8 [] n = 2 -> 12 [] n = 3 -> 16

\* C1: for every arity 0..3 and all argument values, the code block executed
\* from its first instruction does not stop before its final branch, and at
\* that branch r0 holds the value stored in the self field and r(k) holds the
\* k-th argument, for every k in 1..N.
C1_SelfFirstArgumentsShifted ==
    /\ phase = "fault" => target # NoTarget
    /\ phase = "branched" =>
          /\ regs[0] = LoadWord(mem, base + OffsetOfSelf(arity))
          /\ \A k \in 1..arity : regs[k] = in_args[k]

\* an arity-3 invocation with arguments that differ has reached its branch
C1_Witness ==
    /\ phase = "branched"
    /\ arity = 3
    /\ in_args[1] # in_args[2]
    /\ in_args[2] # in_args[3]

\* C2: for every arity 0..3, with the block at a 4-byte-aligned base, the load
\* that feeds the final bx reads the word at base + L(N) + 4, the first word
\* of the method field, and bx transfers control to the bound method's
\* address (stated for invocations no set_method overlaps).
C2_BranchTargetIsMethod ==
    (phase = "branched" /\ base % 4 = 0) =>
        /\ target.from = base + StatedLength(arity) + 4
        /\ clean => target.value = WordOf(last_set)

\* C2 for one and two arguments only, where the encoded offsets reach method
C2_OneOrTwoArguments ==
    (phase = "branched" /\ base % 4 = 0 /\ arity \in {1, 2}) =>
        /\ target.from = base + StatedLength(arity) + 4
        /\ clean => target.value = WordOf(last_set)

\* C3: for every arity 0..3, once set_method(M2) has returned on a trampoline
\* constructed with (obj, M1), every invocation that no set_method overlaps
\* branches to M2 with obj in r0, and not to M1.
C3_DispatchAfterSetMethod ==
    (phase = "branched" /\ clean /\ last_set # ctor.method) =>
        /\ target.value = WordOf(last_set)
        /\ target.value # WordOf(ctor.method)
        /\ regs[0] = WordOf(ctor.obj)

\* C4: in every state reachable from construction, the conversion to
\* function pointer and get_callback() both return the code block's base
\* address plus 1, so any two requests on one instance return the same value.
C4_CallbackIsBasePlusOne ==
    /\ op = "operator function_pointer" => ret = WordOf(base + 1)
    /\ op = "get_callback" => ret = WordOf(base + 1)
    /\ registered # 0 => registered = base + 1

\* get_callback has answered after the method was rebound and an invocation ran
C4_Witness ==
    /\ op = "get_callback"
    /\ last_set # ctor.method
    /\ phase = "returned"

\* C5: the code block and the self field keep their constructed values in
\* every reachable state; only a completed set_method changes the storage,
\* and it changes the method field only; an invocation has loaded the
\* constructed self value into r0 when it branches.
C5_CodeAndSelfNeverChange ==
    /\ \A i \in 1..Len(AsmCode(arity)) : mem[base + i - 1] = AsmCode(arity)[i]
    /\ LoadWord(mem, base + OffsetOfSelf(arity)) = WordOf(ctor.obj)
    /\ \A a \in MethodField(base, arity) :
         mem[a] = MethodRep(last_set)[a - (base + OffsetOfMethod(arity)) + 1]
    /\ phase = "branched" => regs[0] = WordOf(ctor.obj)

\* an invocation branches after set_method has rebound the method
C5_Witness ==
    /\ phase = "branched"
    /\ last_set # ctor.method
    /\ op = "get_method"

\* C6: right after construction self holds obj's address and the method field
\* holds M; get_method() returns the argument of the most recent set_method,
\* or M if there was none, however often it is called.
C6_GetMethodReturnsLastSet ==
    /\ op = "constructor" =>
          /\ LoadWord(mem, base + OffsetOfSelf(arity)) = WordOf(ctor.obj)
          /\ get_method(mem, base, arity) = WordOf(ctor.method)
    /\ op = "get_method" => ret = WordOf(last_set)

\* get_method has answered after a set_method with another method
C6_Witness ==
    /\ op = "get_method"
    /\ last_set # ctor.method
    /\ ret = WordOf(last_set)

\* C7: for every arity the storage is [code][self][method] without padding:
\* the code block is L(N) bytes with L = {0:8, 1:8, 2:12, 3:16}, self is the
\* word at offset L(N), method starts at L(N)+4, and the base is a multiple
\* of 4 wherever the trampoline sits in its containing object.
C7_Layout ==
    /\ Len(AsmCode(arity)) = StatedLength(arity)
    /\ SizeofAsmCode(arity) = StatedLength(arity)
    /\ OffsetOfSelf(arity) = StatedLength(arity)
    /\ OffsetOfMethod(arity) = StatedLength(arity) + 4
    /\ DOMAIN mem = base..(base + StatedLength(arity) + 4 + 8 - 1)
    /\ LoadWord(mem, base + StatedLength(arity)) = WordOf(ctor.obj)
    /\ LoadWord(mem, base + StatedLength(arity) + 4) = WordOf(last_set)
    /\ base % 4 = 0

\* a trampoline that follows other members of its containing object
C7_Witness ==
    /\ arity = 2
    /\ base > ctor.obj
    /\ op = "set_method"

\* C8: an instantiation is accepted only if the return type is void or at
\* most 8 bytes wide.
C8_WideReturnRejected ==
    inst.accepted => (inst.R = "void" \/ Sizeof(inst.R) <= 8)

\* C9: an instantiation is rejected whenever it has more than 3 forwarded
\* arguments or an argument wider than 4 bytes; the argument constraints are
\* satisfied by every list of 0 to 3 types of at most 4 bytes each, and so by
\* all eight hardware aliases.
C9_ArgumentConstraints ==
    inst # NoInst =>
        /\ (Len(inst.Args) > 3 \/ \E i \in 1..Len(inst.Args) : Sizeof(inst.Args[i]) > 4)
              => ~inst.accepted
        /\ (Len(inst.Args) <= 3 /\ \A i \in 1..Len(inst.Args) : Sizeof(inst.Args[i]) <= 4)
              => inst.args_ok
        /\ [R |-> inst.R, Args |-> inst.Args] \in Aliases => inst.accepted

\* the alarm alias (int64_t result; int32_t and pointer arguments) is accepted
C9_Witness ==
    /\ inst.R = "int64_t"
    /\ inst.Args = <<"int32_t", "pointer">>
    /\ inst.accepted

\* the registers the code block may write besides pc
Writable == {0, 1, 2, 3, 12}

====
